---- MODULE Spec2Model ----
(***************************************************************************)
(* A model of the Idswyft Python SDK (sdks/python/idswyft): the client's   *)
(* construction, the transport (_make_request and _raise_for_status), the  *)
(* public methods' unwrap of the transport's result, and the static        *)
(* webhook signature verifier.                                             *)
(*                                                                         *)
(* Python values are encoded as follows.  An optional value is a tuple:    *)
(* None is <<>> and a present value v is <<v>>.  A text is a tuple of      *)
(* one-character strings where its characters matter (signatures) and a    *)
(* tuple of pieces where only its composition matters (messages, paths).   *)
(* The dependency set is the one setup.py declares (requests >= 2.28, no   *)
(* simplejson), so response.json() raises a json.JSONDecodeError.          *)
(***************************************************************************)
EXTENDS Integers, Sequences, FiniteSets, TLC

VARIABLES
    ctorArgs,    \* the arguments IdswyftClient(...) was called with (None: not yet)
    ctor,        \* "unconstructed" | "ok" | "raised": how IdswyftClient(...) ended
    ctorExc,     \* the exception the constructor raised (None when it did not)
    config,      \* the client's api_key, base_url, timeout, sandbox (None: no client)
    session,     \* "none" | "open": the requests.Session the client owns
    headers,     \* session.headers, as <<name, value>> pairs (None: no session)
    nCalls,      \* public method calls started on the client
    nRequests,   \* invocations of session.request (the transport)
    call,        \* the current public call: method, phase, request, its own counters
    response,    \* what the transport gave the current call (None while in flight)
    mrOutcome,   \* how _make_request ended for the current call (None: not yet)
    outcome,     \* how the public method ended for the caller (None: not yet)
    sigIn,       \* arguments of the last verify_webhook_signature call
    sigOut,      \* how that call ended
    prepIn,      \* content, field name and stream position given to _prepare_file
    prepOut,     \* how _prepare_file ended for the path, the bytes and the stream
    buildIn,     \* a public method and the arguments it is called with
    built,       \* the request that call hands to session.request, or its exception
    block,       \* a with-block around a client (where it is, what its body raised,
                 \* what left it) and the close() calls made on the client
    threads      \* the calls that run concurrently on one client

clientVars == <<ctorArgs, ctor, ctorExc, config, session, headers, nCalls, nRequests, call, response,
                mrOutcome, outcome>>
\* Variables of the calls that are explored on their own
sigVars == <<sigIn, sigOut>>
pureVars == <<prepIn, prepOut, buildIn, built>>
scopeVars == <<block, threads>>
vars == <<ctorArgs, ctor, ctorExc, config, session, headers, nCalls, nRequests, call, response,
          mrOutcome, outcome, sigIn, sigOut, prepIn, prepOut, buildIn, built,
          block, threads>>

----------------------------------------------------------------------------
(* Bounds of the model *)

\* public calls made on one client
MaxCalls == 2
\* characters of the hex digest the HMAC stand-in produces (64 in SHA-256)
DigestLen == 3
\* characters of a payload or a secret
MaxTextLen == 2
\* bytes of a file given to _prepare_file
MaxFileLen == 2
\* close() calls made on one client
MaxCloses == 2
\* calls that run concurrently on one client
NumThreads == 2

----------------------------------------------------------------------------
(* Python values *)

None == <<>>
Some(x) == <<x>>
\* An attribute the exception class does not define
NoAttr == <<"<no attribute>">>

\* dict.get(key) and dict.get(key, default) on a decoded JSON object whose
\* modelled keys hold optional values
Get(d, key) == d[key]
GetOr(d, key, default) == IF d[key] = None THEN default ELSE d[key][1]

\* A decoded-or-raw HTTP body.  ty: "text" (not JSON; raw is the body text),
\* "array" | "string" | "number" | "null" (JSON, not an object), "object".
\* extra: the object's keys other than the modelled ones, as <<key, value>> pairs.
MkBody(ty, raw, extra, m, c, d, f, r, ra, v) ==
    [ty |-> ty, raw |-> raw, extra |-> extra, message |-> m, code |-> c,
     details |-> d, field |-> f, resource |-> r, retry_after |-> ra,
     verification |-> v]

EmptyObject == MkBody("object", <<>>, <<>>, None, None, None, None, None, None, None)
NonObject(ty) == MkBody(ty, <<>>, <<>>, None, None, None, None, None, None, None)
TextBody(raw) == MkBody("text", raw, <<>>, None, None, None, None, None, None, None)

\* The fields of a verification record (types.py VerificationResult)
RecordFields == << <<"id", "verif_1">>, <<"status", "pending">>, <<"type", "document">> >>
VerificationRecord == [EmptyObject EXCEPT !.extra = RecordFields]

\* JSON values under the "details" key
DetailsList == [ty |-> "list", v |-> <<"document_type is required">>]
DetailsDict == [ty |-> "dict", v |-> <<"reason">>]

PyList(items) == [ty |-> "list", v |-> items]

\* How a call ends: a returned value or a raised exception
Return(v) == [kind |-> "return", value |-> Some(v), exc |-> None]
Raise(e) == [kind |-> "raise", value |-> None, exc |-> Some(e)]

----------------------------------------------------------------------------
(* exceptions.py *)

\* IdswyftError.__init__ and the attributes its subclasses add
MkExc(cls, message, status_code, error_code, details, field, validation_errors, resource, retry_after) ==
    [cls |-> cls, message |-> message, status_code |-> status_code,
     error_code |-> error_code, details |-> details, field |-> field,
     validation_errors |-> validation_errors, resource |-> resource,
     retry_after |-> retry_after]

IdswyftAPIError(message, status_code, error_code, details) ==
    MkExc("IdswyftAPIError", message, status_code, error_code, details,
          NoAttr, NoAttr, NoAttr, NoAttr)

IdswyftAuthenticationError(message) ==
    MkExc("IdswyftAuthenticationError", message, Some(401),
          Some("authentication_failed"), None, NoAttr, NoAttr, NoAttr, NoAttr)

\* validation_errors or []
IdswyftValidationError(message, field, validation_errors) ==
    MkExc("IdswyftValidationError", message, Some(400), Some("validation_failed"),
          None, field,
          IF validation_errors = None \/ validation_errors = Some(PyList(<<>>))
              THEN PyList(<<>>) ELSE validation_errors[1],
          NoAttr, NoAttr)

IdswyftNetworkError(message) ==
    MkExc("IdswyftNetworkError", message, None, Some("network_error"), None,
          NoAttr, NoAttr, NoAttr, NoAttr)

\* Mutant of IdswyftRateLimitError: retry_after is not stored
IdswyftRateLimitErrorNoRetryAfter(message, retry_after) ==
    MkExc("IdswyftRateLimitError", message, Some(429), Some("rate_limit_exceeded"),
          None, NoAttr, NoAttr, NoAttr, None)

IdswyftRateLimitError(message, retry_after) ==
    MkExc("IdswyftRateLimitError", message, Some(429), Some("rate_limit_exceeded"),
          None, NoAttr, NoAttr, NoAttr, retry_after)

\* Mutant of IdswyftNotFoundError: the message does not name the resource
IdswyftNotFoundErrorFixedMessage(resource) ==
    MkExc("IdswyftNotFoundError", <<"Resource", " not found">>, Some(404),
          Some("not_found"), None, NoAttr, NoAttr, Some(resource), NoAttr)

\* message = f"{resource} not found"
IdswyftNotFoundError(resource) ==
    MkExc("IdswyftNotFoundError", <<resource, " not found">>, Some(404),
          Some("not_found"), None, NoAttr, NoAttr, Some(resource), NoAttr)

IdswyftServerError(message) ==
    MkExc("IdswyftServerError", message, Some(500), Some("server_error"), None,
          NoAttr, NoAttr, NoAttr, NoAttr)

\* The classes deriving from IdswyftError
Taxonomy == {"IdswyftError", "IdswyftAPIError", "IdswyftAuthenticationError",
             "IdswyftValidationError", "IdswyftNetworkError",
             "IdswyftRateLimitError", "IdswyftNotFoundError", "IdswyftServerError"}

\* A Python built-in exception (ValueError, KeyError, AttributeError, ...)
BuiltinExc(cls, message) ==
    MkExc(cls, message, NoAttr, NoAttr, NoAttr, NoAttr, NoAttr, NoAttr, NoAttr)

----------------------------------------------------------------------------
(* The transport's answers *)

\* requests.exceptions: each class with its direct bases
RequestsBases(cls) ==
    CASE cls = "RequestException" -> {}
      [] cls = "Timeout" -> {"RequestException"}
      [] cls = "ConnectionError" -> {"RequestException"}
      [] cls = "ConnectTimeout" -> {"ConnectionError", "Timeout"}
      [] cls = "ReadTimeout" -> {"Timeout"}
      [] cls = "SSLError" -> {"ConnectionError"}
      [] cls = "TooManyRedirects" -> {"RequestException"}
      [] OTHER -> {}

TransportExceptions == {"Timeout", "ConnectionError", "ConnectTimeout", "ReadTimeout",
                        "SSLError", "TooManyRedirects", "RequestException"}

\* isinstance(e, base), as an except clause tests it
RECURSIVE IsInstance(_, _)
IsInstance(cls, base) ==
    cls = base \/ \E b \in RequestsBases(cls) : IsInstance(b, base)

HttpResponse(status, body) == [t |-> "http", status |-> status, body |-> body, cls |-> ""]
TransportFailure(cls) == [t |-> "exc", status |-> 0, body |-> EmptyObject, cls |-> cls]

----------------------------------------------------------------------------
(* client.py: the transport *)

\* str(n) for the timeouts the model constructs clients with
IntStr(n) == CASE n = 30 -> "30" [] n = 5 -> "5" [] OTHER -> "?"

\* {"message": "Success"}
SuccessMarker == [EmptyObject EXCEPT !.message = Some(<<"Success">>)]

\* {"error": "Unknown error", "message": response.text}
UnknownErrorData(text) ==
    [EmptyObject EXCEPT !.extra = << <<"error", "Unknown error">> >>,
                        !.message = Some(text)]

\* error_data.get(...) exists only on a dict: on a list, a str, a number or None
\* the first line of _raise_for_status raises AttributeError
HasGet(error_data) == error_data.ty = "object"

\* Mutant of StatusClass: the server-error range starts after 500
StatusClassAbove500(status_code) ==
    IF status_code = 400 THEN "IdswyftValidationError"
    ELSE IF status_code = 401 THEN "IdswyftAuthenticationError"
    ELSE IF status_code = 404 THEN "IdswyftNotFoundError"
    ELSE IF status_code = 429 THEN "IdswyftRateLimitError"
    ELSE IF 500 < status_code /\ status_code < 600 THEN "IdswyftServerError"
    ELSE "IdswyftAPIError"

\* The branch of _raise_for_status the status code selects
StatusClass(status_code) ==
    IF status_code = 400 THEN "IdswyftValidationError"
    ELSE IF status_code = 401 THEN "IdswyftAuthenticationError"
    ELSE IF status_code = 404 THEN "IdswyftNotFoundError"
    ELSE IF status_code = 429 THEN "IdswyftRateLimitError"
    ELSE IF 500 <= status_code /\ status_code < 600 THEN "IdswyftServerError"
    ELSE "IdswyftAPIError"

\* _raise_for_status(status_code, error_data): always ends in a raise
RaiseForStatus(status_code, error_data) ==
    IF ~HasGet(error_data)
    THEN Raise(BuiltinExc("AttributeError", <<"object has no attribute 'get'">>))
    ELSE
    LET message == GetOr(error_data, "message", <<"API request failed">>)
        error_code == Get(error_data, "code")
        details == Get(error_data, "details")
        branch == StatusClass(status_code)
    IN  CASE branch = "IdswyftValidationError" ->
               Raise(IdswyftValidationError(message, Get(error_data, "field"),
                        IF details # None /\ details[1].ty = "list"
                            THEN details ELSE None))
          [] branch = "IdswyftAuthenticationError" ->
               Raise(IdswyftAuthenticationError(message))
          [] branch = "IdswyftNotFoundError" ->
               Raise(IdswyftNotFoundError(GetOr(error_data, "resource", "Resource")))
          [] branch = "IdswyftRateLimitError" ->
               Raise(IdswyftRateLimitError(message, Get(error_data, "retry_after")))
          [] branch = "IdswyftServerError" ->
               Raise(IdswyftServerError(message))
          [] OTHER ->
               Raise(IdswyftAPIError(message, Some(status_code), error_code, details))

\* Mutant of NetworkErrorFor: the RequestException clause is missing
NetworkErrorForTwoClauses(cls, timeout) ==
    IF IsInstance(cls, "Timeout")
    THEN Raise(IdswyftNetworkError(
             <<"Request timed out after ", IntStr(timeout), " seconds">>))
    ELSE IF IsInstance(cls, "ConnectionError")
    THEN Raise(IdswyftNetworkError(<<"Failed to connect to Idswyft API">>))
    ELSE Raise(BuiltinExc(cls, <<cls>>))

\* The except clauses of _make_request, in their order
NetworkErrorFor(cls, timeout) ==
    IF IsInstance(cls, "Timeout")
    THEN Raise(IdswyftNetworkError(
             <<"Request timed out after ", IntStr(timeout), " seconds">>))
    ELSE IF IsInstance(cls, "ConnectionError")
    THEN Raise(IdswyftNetworkError(<<"Failed to connect to Idswyft API">>))
    ELSE IF IsInstance(cls, "RequestException")
    THEN Raise(IdswyftNetworkError(<<"Network error: ", cls>>))
    ELSE Raise(BuiltinExc(cls, <<cls>>))

\* Mutant of MakeRequest: a success body that is not JSON raises
MakeRequestDecodeRaises(timeout, resp) ==
    IF resp.t = "exc"
    THEN [out |-> NetworkErrorFor(resp.cls, timeout), rfs |-> 0]
    ELSE IF resp.status = 200 \/ resp.status = 201
    THEN [out |-> IF resp.body.ty = "text"
                  THEN Raise(BuiltinExc("JSONDecodeError", <<"Expecting value">>))
                  ELSE Return(resp.body),
          rfs |-> 0]
    ELSE [out |-> RaiseForStatus(resp.status,
                     IF resp.body.ty = "text" THEN UnknownErrorData(resp.body.raw)
                     ELSE resp.body),
          rfs |-> 1]

\* _make_request from the point session.request(...) has answered or raised:
\* out is how it ends, rfs the number of times it invoked _raise_for_status
MakeRequest(timeout, resp) ==
    IF resp.t = "exc"
    THEN [out |-> NetworkErrorFor(resp.cls, timeout), rfs |-> 0]
    ELSE IF resp.status = 200 \/ resp.status = 201
    THEN [out |-> IF resp.body.ty = "text" THEN Return(SuccessMarker)
                  ELSE Return(resp.body),
          rfs |-> 0]
    ELSE [out |-> RaiseForStatus(resp.status,
                     IF resp.body.ty = "text" THEN UnknownErrorData(resp.body.raw)
                     ELSE resp.body),
          rfs |-> 1]

----------------------------------------------------------------------------
(* client.py: the public methods *)

\* update_webhook is defined twice in the class body; the later definition
\* (PUT /api/webhooks/{webhook_id}) is the attribute the class ends up with.
PublicMethods ==
    {"start_verification", "verify_document", "verify_back_of_id", "live_capture",
     "generate_live_token", "get_verification_results", "get_verification_history",
     "verify_selfie", "get_verification_status", "list_verifications",
     "update_webhook", "register_developer", "create_api_key", "list_api_keys",
     "revoke_api_key", "get_api_activity", "register_webhook", "list_webhooks",
     "delete_webhook", "test_webhook", "get_webhook_deliveries", "get_usage_stats",
     "health_check"}

\* The methods whose return type is VerificationResult
VerificationMethods ==
    {"verify_document", "verify_selfie", "verify_back_of_id", "live_capture",
     "get_verification_status", "get_verification_results"}

\* The multipart field of the methods that upload a file ("" for the others)
FileField(m) ==
    CASE m = "verify_document" -> "document"
      [] m = "verify_back_of_id" -> "back_of_id"
      [] m = "verify_selfie" -> "selfie"
      [] OTHER -> ""

\* Mutant of HttpMethod: the first definition of update_webhook is in effect
HttpMethodFirstDefinition(m) ==
    CASE m \in {"get_verification_results", "get_verification_history",
                "get_verification_status", "list_verifications", "list_api_keys",
                "get_api_activity", "list_webhooks", "get_webhook_deliveries",
                "get_usage_stats", "health_check"} -> "GET"
      [] m = "update_webhook" -> "PATCH"
      [] m \in {"revoke_api_key", "delete_webhook"} -> "DELETE"
      [] OTHER -> "POST"

\* The HTTP method of each public method's request
HttpMethod(m) ==
    CASE m \in {"get_verification_results", "get_verification_history",
                "get_verification_status", "list_verifications", "list_api_keys",
                "get_api_activity", "list_webhooks", "get_webhook_deliveries",
                "get_usage_stats", "health_check"} -> "GET"
      [] m = "update_webhook" -> "PUT"
      [] m \in {"revoke_api_key", "delete_webhook"} -> "DELETE"
      [] OTHER -> "POST"

\* The endpoint of each public method's request, its leading "/" as a piece
\* of its own; id is the path argument
Endpoint(m, id) ==
    CASE m = "start_verification" -> <<"/", "api/verify/start">>
      [] m = "verify_document" -> <<"/", "api/verify/document">>
      [] m = "verify_back_of_id" -> <<"/", "api/verify/back-of-id">>
      [] m = "live_capture" -> <<"/", "api/verify/live-capture">>
      [] m = "generate_live_token" -> <<"/", "api/verify/generate-live-token">>
      [] m = "get_verification_results" -> <<"/", "api/verify/results/", id>>
      [] m = "get_verification_history" -> <<"/", "api/verify/history/", id>>
      [] m = "verify_selfie" -> <<"/", "api/verify/selfie">>
      [] m = "get_verification_status" -> <<"/", "api/verify/status/", id>>
      [] m = "list_verifications" -> <<"/", "api/verify/list">>
      [] m = "update_webhook" -> <<"/", "api/webhooks/", id>>
      [] m = "register_developer" -> <<"/", "api/developer/register">>
      [] m = "create_api_key" -> <<"/", "api/developer/api-key">>
      [] m = "list_api_keys" -> <<"/", "api/developer/api-keys">>
      [] m = "revoke_api_key" -> <<"/", "api/developer/api-key/", id>>
      [] m = "get_api_activity" -> <<"/", "api/developer/activity">>
      [] m = "register_webhook" -> <<"/", "api/webhooks/register">>
      [] m = "list_webhooks" -> <<"/", "api/webhooks">>
      [] m = "delete_webhook" -> <<"/", "api/webhooks/", id>>
      [] m = "test_webhook" -> <<"/", "api/webhooks/", id, "/test">>
      [] m = "get_webhook_deliveries" -> <<"/", "api/webhooks/", id, "/deliveries">>
      [] m = "get_usage_stats" -> <<"/", "api/developer/stats">>
      [] OTHER -> <<"/", "api/health">>

\* The MIME type _prepare_file gives every upload
OctetStream == "application/octet-stream"

\* What a caller can pass as a file.  ty "str": a path (every str is taken as
\* one), whose file holds content or does not exist; "bytes": the content
\* itself; "stream": an object with read() over content, standing at position
\* pos; "int": none of the three.
FileValue(ty, exists, content, pos) ==
    [ty |-> ty, exists |-> exists, content |-> content, pos |-> pos]
PathTo(content) == FileValue("str", TRUE, content, 0)
MissingPath == FileValue("str", FALSE, <<>>, 0)
RawBytes(content) == FileValue("bytes", TRUE, content, 0)
Stream(content, pos) == FileValue("stream", TRUE, content, pos)
NotFileData == FileValue("int", TRUE, <<>>, 0)

\* read(): the bytes from the current position to the end
Read(content, pos) == SubSeq(content, pos + 1, Len(content))

\* Mutant of PrepareFile: the MIME type of a path is guessed from its name
PrepareFileGuessMime(file_data, field_name) ==
    CASE file_data.ty = "str" ->
             IF file_data.exists
             THEN Return(<<field_name, Read(file_data.content, 0), "image/jpeg">>)
             ELSE Raise(BuiltinExc("FileNotFoundError", <<"No such file or directory">>))
      [] file_data.ty = "bytes" ->
             Return(<<field_name, file_data.content, OctetStream>>)
      [] file_data.ty = "stream" ->
             Return(<<field_name, Read(file_data.content, file_data.pos), OctetStream>>)
      [] OTHER ->
             Raise(BuiltinExc("ValueError",
                              <<"Invalid file data type: ", "<class '", file_data.ty, "'>">>))

\* Mutant of PrepareFile: anything that is not a str or bytes is sent as an
\* empty upload
PrepareFileLenient(file_data, field_name) ==
    CASE file_data.ty = "str" ->
             IF file_data.exists
             THEN Return(<<field_name, Read(file_data.content, 0), OctetStream>>)
             ELSE Raise(BuiltinExc("FileNotFoundError", <<"No such file or directory">>))
      [] file_data.ty = "bytes" ->
             Return(<<field_name, file_data.content, OctetStream>>)
      [] file_data.ty = "stream" ->
             Return(<<field_name, Read(file_data.content, file_data.pos), OctetStream>>)
      [] OTHER ->
             Return(<<field_name, <<>>, OctetStream>>)

\* _prepare_file(file_data, field_name): open(path, "rb").read() of a str, the
\* bytes themselves, read() of an object that has it, ValueError otherwise
PrepareFile(file_data, field_name) ==
    CASE file_data.ty = "str" ->
             IF file_data.exists
             THEN Return(<<field_name, Read(file_data.content, 0), OctetStream>>)
             ELSE Raise(BuiltinExc("FileNotFoundError", <<"No such file or directory">>))
      [] file_data.ty = "bytes" ->
             Return(<<field_name, file_data.content, OctetStream>>)
      [] file_data.ty = "stream" ->
             Return(<<field_name, Read(file_data.content, file_data.pos), OctetStream>>)
      [] OTHER ->
             Raise(BuiltinExc("ValueError",
                              <<"Invalid file data type: ", "<class '", file_data.ty, "'>">>))

\* How each method takes the verification out of the decoded response:
\* response.get("verification", response), response["verification"], or response
UnwrapKind(m) ==
    CASE m \in {"verify_document", "verify_selfie"} -> "get_or_self"
      [] m = "get_verification_status" -> "subscript"
      [] OTHER -> "as_is"

\* Mutant of Absorbed: health_check catches IdswyftAPIError and its subclasses
AbsorbedApiErrors(m) ==
    IF m = "health_check"
    THEN {"IdswyftAPIError", "IdswyftAuthenticationError", "IdswyftValidationError",
          "IdswyftRateLimitError", "IdswyftNotFoundError", "IdswyftServerError"}
    ELSE {}

\* Mutant of Absorbed: every method catches IdswyftNotFoundError
AbsorbedByAll(m) == {"IdswyftNotFoundError"}

\* The exception classes method m catches around its _make_request call
Absorbed(m) == IF m = "health_check" THEN {"IdswyftNotFoundError"} ELSE {}

\* {"status": "ok", "timestamp": ""}
HealthFallback ==
    [EmptyObject EXCEPT !.extra = << <<"status", "ok">>, <<"timestamp", "">> >>]

\* response.get("verification", response)
GetVerificationOrSelf(v) ==
    IF v.ty # "object"
    THEN Raise(BuiltinExc("AttributeError", <<"object has no attribute 'get'">>))
    ELSE IF v.verification = None THEN Return(v)
    ELSE Return(v.verification[1])

\* response["verification"]
SubscriptVerification(v) ==
    IF v.ty # "object"
    THEN Raise(BuiltinExc("TypeError", <<"indices must be integers or not subscriptable">>))
    ELSE IF v.verification = None
    THEN Raise(BuiltinExc("KeyError", <<"verification">>))
    ELSE Return(v.verification[1])

\* What method m does with the way its _make_request call ended
Surface(m, mr) ==
    IF mr.kind = "raise"
    THEN IF mr.exc[1].cls \in Absorbed(m) THEN Return(HealthFallback) ELSE mr
    ELSE CASE UnwrapKind(m) = "get_or_self" -> GetVerificationOrSelf(mr.value[1])
           [] UnwrapKind(m) = "subscript" -> SubscriptVerification(mr.value[1])
           [] OTHER -> mr

----------------------------------------------------------------------------
(* client.py: the form data and the query parameters of each public method *)

\* An argument value: a str (s: its pieces), an int (s: its decimal digits), a
\* bool (s: its repr), a list (items) or a dict (items: key, value, key, ...)
ArgValue(ty, s, items) == [ty |-> ty, s |-> s, items |-> items]
AStr(pieces) == ArgValue("str", pieces, <<>>)
AInt(digits) == ArgValue("int", digits, <<>>)
ABool(b) == ArgValue("bool", IF b THEN <<"True">> ELSE <<"False">>, <<>>)
AList(items) == ArgValue("list", <<>>, items)
ADict(items) == ArgValue("dict", <<>>, items)

\* bool(v), as "if v:" applies it
ArgTruthy(v) ==
    CASE v.ty = "str" -> v.s # <<>>
      [] v.ty = "int" -> v.s # <<"0">>
      [] v.ty = "bool" -> v.s = <<"True">>
      [] v.ty \in {"list", "dict"} -> v.items # <<>>
      [] OTHER -> FALSE

\* str(v) of an int
StrOf(v) == AStr(v.s)

\* json.dumps(v) of a dict
JsonDumps(v) == AStr(<<"{">> \o v.items \o <<"}">>)

\* The parameters of method m that default to None
Optionals(m) ==
    CASE m = "start_verification" -> {"sandbox"}
      [] m = "verify_document" -> {"verification_id", "user_id", "webhook_url", "metadata"}
      [] m = "verify_back_of_id" -> {"metadata"}
      [] m = "live_capture" -> {"challenge_response", "metadata"}
      [] m = "generate_live_token" -> {"challenge_type"}
      [] m = "get_verification_history" -> {"limit", "offset"}
      [] m = "verify_selfie" ->
             {"verification_id", "reference_document_id", "user_id", "webhook_url",
              "metadata"}
      [] m = "list_verifications" -> {"status", "limit", "offset", "user_id"}
      [] m = "get_api_activity" -> {"limit", "offset", "start_date", "end_date"}
      [] m = "register_webhook" -> {"events", "secret"}
      [] m = "update_webhook" -> {"url", "events", "secret"}
      [] m = "get_webhook_deliveries" -> {"limit", "offset"}
      [] OTHER -> {}

OptionalParams == UNION {Optionals(m) : m \in PublicMethods}

\* A call that gives no optional argument
NoArgs == [param \in OptionalParams |-> None]

\* Mutant of IfNotNone: the key is set whether or not the argument was given
IfNotNoneAlways(key, arg) ==
    {<<key, IF arg = None THEN ArgValue("NoneType", <<>>, <<>>) ELSE arg[1]>>}

\* if arg is not None: data[key] = arg
IfNotNone(key, arg) == IF arg # None THEN {<<key, arg[1]>>} ELSE {}

\* if arg: data[key] = arg
IfTruthy(key, arg) == IF arg # None /\ ArgTruthy(arg[1]) THEN {<<key, arg[1]>>} ELSE {}

\* if arg: params[key] = str(arg)
IfTruthyStr(key, arg) ==
    IF arg # None /\ ArgTruthy(arg[1]) THEN {<<key, StrOf(arg[1])>>} ELSE {}

\* if arg: data[key] = json.dumps(arg)
IfTruthyJson(key, arg) ==
    IF arg # None /\ ArgTruthy(arg[1]) THEN {<<key, JsonDumps(arg[1])>>} ELSE {}

\* The values the model gives to the required parameters
Required(name) == AStr(<<"<", name, ">">>)

\* data= of the method's _make_request call, as a set of <<key, value>> pairs
\* (None: the method passes no data); id is the method's identifier argument
FormData(m, id, a) ==
    CASE m = "start_verification" ->
             Some({<<"user_id", AStr(<<id>>)>>} \cup IfNotNone("sandbox", a["sandbox"]))
      [] m = "verify_document" ->
             Some({<<"document_type", Required("document_type")>>}
                  \cup IfTruthy("verification_id", a["verification_id"])
                  \cup IfTruthy("user_id", a["user_id"])
                  \cup IfTruthy("webhook_url", a["webhook_url"])
                  \cup IfTruthyJson("metadata", a["metadata"]))
      [] m = "verify_back_of_id" ->
             Some({<<"verification_id", AStr(<<id>>)>>,
                   <<"document_type", Required("document_type")>>}
                  \cup IfTruthyJson("metadata", a["metadata"]))
      [] m = "live_capture" ->
             Some({<<"verification_id", AStr(<<id>>)>>,
                   <<"live_image_data", Required("live_image_data")>>}
                  \cup IfTruthy("challenge_response", a["challenge_response"])
                  \cup IfTruthyJson("metadata", a["metadata"]))
      [] m = "generate_live_token" ->
             Some({<<"verification_id", AStr(<<id>>)>>}
                  \cup IfTruthy("challenge_type", a["challenge_type"]))
      [] m = "verify_selfie" ->
             Some(IfTruthy("verification_id", a["verification_id"])
                  \cup IfTruthy("reference_document_id", a["reference_document_id"])
                  \cup IfTruthy("user_id", a["user_id"])
                  \cup IfTruthy("webhook_url", a["webhook_url"])
                  \cup IfTruthyJson("metadata", a["metadata"]))
      [] m = "register_developer" ->
             Some({<<"email", Required("email")>>, <<"name", Required("name")>>})
      [] m = "create_api_key" ->
             Some({<<"name", Required("name")>>,
                   <<"environment", Required("environment")>>})
      [] m = "register_webhook" ->
             Some({<<"url", Required("url")>>}
                  \cup IfTruthy("events", a["events"])
                  \cup IfTruthy("secret", a["secret"]))
      [] m = "update_webhook" ->
             Some(IfTruthy("url", a["url"])
                  \cup IfNotNone("events", a["events"])
                  \cup IfNotNone("secret", a["secret"]))
      [] OTHER -> None

\* params= of the method's _make_request call (None: the method passes none)
QueryParams(m, a) ==
    CASE m \in {"get_verification_history", "get_webhook_deliveries"} ->
             Some(IfTruthyStr("limit", a["limit"]) \cup IfTruthyStr("offset", a["offset"]))
      [] m = "list_verifications" ->
             Some(IfTruthy("status", a["status"])
                  \cup IfTruthyStr("limit", a["limit"])
                  \cup IfTruthyStr("offset", a["offset"])
                  \cup IfTruthy("user_id", a["user_id"]))
      [] m = "get_api_activity" ->
             Some(IfTruthyStr("limit", a["limit"])
                  \cup IfTruthyStr("offset", a["offset"])
                  \cup IfTruthy("start_date", a["start_date"])
                  \cup IfTruthy("end_date", a["end_date"]))
      [] OTHER -> None

\* Method m up to its session.request(...) call: the arguments of that call,
\* or the exception _prepare_file raised before it
BuildRequest(m, id, file, a) ==
    LET request(files) ==
            Return([method |-> HttpMethod(m), endpoint |-> Endpoint(m, id),
                    data |-> FormData(m, id, a), params |-> QueryParams(m, a),
                    files |-> files])
    IN  IF FileField(m) = "" THEN request(None)
        ELSE LET file_tuple == PrepareFile(file[1], FileField(m))
             IN  IF file_tuple.kind = "raise" THEN file_tuple
                 ELSE request(Some(<<FileField(m), file_tuple.value[1]>>))

----------------------------------------------------------------------------
(* client.py: verify_webhook_signature *)

\* Argument values: a str, bytes, an int or None; s holds the characters (of an
\* int: its decimal digits)
PyStr(chars) == [ty |-> "str", s |-> chars]
PyBytes(chars) == [ty |-> "bytes", s |-> chars]
PyInt(digits) == [ty |-> "int", s |-> digits]
PyNone == [ty |-> "NoneType", s |-> <<>>]

\* bool(v), as all([...]) applies it
Truthy(v) ==
    CASE v.ty = "NoneType" -> FALSE
      [] v.ty = "int" -> v.s # <<"0">>
      [] OTHER -> Len(v.s) > 0

HexChars == <<"0", "1", "2", "3", "4", "5", "6", "7", "8", "9",
              "a", "b", "c", "d", "e", "f">>

\* "sha256="
SigPrefix == <<"s", "h", "a", "2", "5", "6", "=">>

\* The one character of the model outside ASCII
NonAscii == "\\u00e9"

IsAscii(chars) == \A i \in 1..Len(chars) : chars[i] # NonAscii

\* text.encode("utf-8"): the bytes of each character
Utf8Char(c) ==
    CASE c = "a" -> <<97>>
      [] c = "b" -> <<98>>
      [] c = NonAscii -> <<195, 169>>
      [] OTHER -> <<63>>

RECURSIVE Utf8(_)
Utf8(chars) == IF chars = <<>> THEN <<>> ELSE Utf8Char(Head(chars)) \o Utf8(Tail(chars))

RECURSIVE Pow16(_)
Pow16(n) == IF n = 0 THEN 1 ELSE 16 * Pow16(n - 1)

RECURSIVE Absorb(_, _, _)
Absorb(h, bytes, modulus) ==
    IF bytes = <<>> THEN h
    ELSE Absorb((h * 31 + Head(bytes) + 1) % modulus, Tail(bytes), modulus)

\* hmac.new(key, msg, hashlib.sha256).hexdigest(): a keyed digest of DigestLen
\* lowercase hex characters, a function of the key bytes and the message bytes
HexDigest(key, msg) ==
    LET modulus == Pow16(DigestLen)
        h == Absorb((Absorb(7, key, modulus) * 17 + 5) % modulus, msg, modulus)
    IN  [i \in 1..DigestLen |-> HexChars[((h \div Pow16(DigestLen - i)) % 16) + 1]]

\* s.replace(pat, ""): every non-overlapping occurrence, left to right
RECURSIVE RemoveAll(_, _)
RemoveAll(s, pat) ==
    IF Len(s) < Len(pat) THEN s
    ELSE IF SubSeq(s, 1, Len(pat)) = pat
    THEN RemoveAll(SubSeq(s, Len(pat) + 1, Len(s)), pat)
    ELSE <<Head(s)>> \o RemoveAll(Tail(s), pat)

\* Mutant of StripSignature: the prefix is left on the signature
StripSignatureKept(signature) ==
    IF signature.ty = "str" THEN Return(signature.s)
    ELSE IF signature.ty = "bytes"
    THEN Raise("TypeError")
    ELSE Raise("AttributeError")

\* signature.replace("sha256=", "")
StripSignature(signature) ==
    IF signature.ty = "str" THEN Return(RemoveAll(signature.s, SigPrefix))
    ELSE IF signature.ty = "bytes"
    THEN Raise("TypeError")
    ELSE Raise("AttributeError")

\* value.encode("utf-8")
Encode(value) ==
    IF value.ty = "str" THEN Return(Utf8(value.s)) ELSE Raise("AttributeError")

\* Mutant of CompareDigest: the last character is not compared
CompareDigestShort(a, b) ==
    IF ~IsAscii(a) \/ ~IsAscii(b) THEN Raise("TypeError")
    ELSE Return(SubSeq(a, 1, Len(a) - 1) = SubSeq(b, 1, Len(b) - 1))

\* hmac.compare_digest(a, b) on two str
CompareDigest(a, b) ==
    IF ~IsAscii(a) \/ ~IsAscii(b) THEN Raise("TypeError") ELSE Return(a = b)

\* The body of the try block, its statements in order
TryVerify(payload, signature, secret) ==
    LET stripped == StripSignature(signature)
        key == Encode(secret)
        msg == Encode(payload)
    IN  IF stripped.kind = "raise" THEN stripped
        ELSE IF key.kind = "raise" THEN key
        ELSE IF msg.kind = "raise" THEN msg
        ELSE CompareDigest(HexDigest(key.value[1], msg.value[1]), stripped.value[1])

\* Mutant of ExceptException: only TypeError is caught
ExceptTypeError(r) ==
    IF r.kind = "raise" /\ r.exc = Some("TypeError") THEN Return(FALSE) ELSE r

\* except Exception: return False
ExceptException(r) == IF r.kind = "raise" THEN Return(FALSE) ELSE r

\* if not all([payload, signature, secret]): return False
AllTruthy(payload, signature, secret) ==
    Truthy(payload) /\ Truthy(signature) /\ Truthy(secret)

VerifyWebhookSignature(payload, signature, secret) ==
    IF ~AllTruthy(payload, signature, secret) THEN Return(FALSE)
    ELSE ExceptException(TryVerify(payload, signature, secret))

----------------------------------------------------------------------------
(* client.py: the constructor *)

DefaultBaseUrl == <<"https://api.idswyft.com">>

\* base_url.rstrip("/") on a URL given as its pieces, "/" being one piece
RECURSIVE RStripSlash(_)
RStripSlash(url) ==
    IF url # <<>> /\ url[Len(url)] = "/" THEN RStripSlash(SubSeq(url, 1, Len(url) - 1))
    ELSE url

\* The headers of a new requests.Session
RequestsHeaders ==
    {<<"User-Agent", "python-requests">>, <<"Accept-Encoding", "gzip, deflate">>,
     <<"Accept", "*/*">>, <<"Connection", "keep-alive">>}

\* Mutant of HeadersUpdate: a name the session already has keeps its value
HeadersUpdateKeepOld(old, new) ==
    old \cup {n \in new : \A h \in old : h[1] # n[1]}

\* headers.update(new): the names of new replace those of old
HeadersUpdate(old, new) ==
    {h \in old : \A n \in new : n[1] # h[1]} \cup new

\* session.headers after __init__
SessionHeaders(api_key) ==
    HeadersUpdate(RequestsHeaders,
                  {<<"X-API-Key", api_key>>, <<"User-Agent", "idswyft-python/2.0.0">>,
                   <<"X-SDK-Version", "2.0.0">>, <<"X-SDK-Language", "python">>})

\* not api_key, for an api_key that is None or a str
Falsy(api_key) == api_key = None \/ api_key = Some("")

\* Mutant of ClientInit: the session is created before the api key is checked
ClientInitSessionFirst(api_key, base_url, timeout, sandbox) ==
    IF Falsy(api_key)
    THEN [exc |-> Some(BuiltinExc("ValueError", <<"API key is required">>)),
          config |-> None, session |-> "open", headers |-> Some(RequestsHeaders)]
    ELSE [exc |-> None,
          config |-> Some([api_key |-> api_key[1], base_url |-> RStripSlash(base_url),
                           timeout |-> timeout, sandbox |-> sandbox]),
          session |-> "open", headers |-> Some(SessionHeaders(api_key[1]))]

\* Mutant of ClientInit: the timeout argument is not stored
ClientInitDefaultTimeout(api_key, base_url, timeout, sandbox) ==
    IF Falsy(api_key)
    THEN [exc |-> Some(BuiltinExc("ValueError", <<"API key is required">>)),
          config |-> None, session |-> "none", headers |-> None]
    ELSE [exc |-> None,
          config |-> Some([api_key |-> api_key[1], base_url |-> RStripSlash(base_url),
                           timeout |-> 30, sandbox |-> sandbox]),
          session |-> "open", headers |-> Some(SessionHeaders(api_key[1]))]

\* IdswyftClient.__init__: the exception it raises (None if none), and the
\* configuration and the session that exist when it ends
ClientInit(api_key, base_url, timeout, sandbox) ==
    IF Falsy(api_key)
    THEN [exc |-> Some(BuiltinExc("ValueError", <<"API key is required">>)),
          config |-> None, session |-> "none", headers |-> None]
    ELSE [exc |-> None,
          config |-> Some([api_key |-> api_key[1], base_url |-> RStripSlash(base_url),
                           timeout |-> timeout, sandbox |-> sandbox]),
          session |-> "open", headers |-> Some(SessionHeaders(api_key[1]))]

\* endpoint.lstrip("/")
RECURSIVE LStripSlash(_)
LStripSlash(endpoint) ==
    IF endpoint # <<>> /\ endpoint[1] = "/" THEN LStripSlash(Tail(endpoint)) ELSE endpoint

\* urljoin(base, rel) for a base of an origin piece followed by path segments
\* and a rel without a leading "/": rel replaces the last segment of the path
UrlJoin(base, rel) ==
    (IF Len(base) <= 1 THEN base ELSE SubSeq(base, 1, Len(base) - 1)) \o <<"/">> \o rel

\* Mutant of SessionRequest: a form without a sandbox field gets the one the
\* client was constructed with
SessionRequestClientSandbox(cfg, hdrs, req) ==
    [method |-> req.method,
     url |-> UrlJoin(cfg.base_url, LStripSlash(req.endpoint)),
     data |-> IF req.data = None \/ (\E pair \in req.data[1] : pair[1] = "sandbox")
              THEN req.data
              ELSE Some(req.data[1] \cup {<<"sandbox", ABool(cfg.sandbox)>>}),
     files |-> req.files,
     params |-> req.params,
     timeout |-> cfg.timeout,
     headers |-> hdrs]

\* The arguments session.request(...) gets from _make_request for the request
\* a public method has built, with the headers the session adds to it
SessionRequest(cfg, hdrs, req) ==
    [method |-> req.method,
     url |-> UrlJoin(cfg.base_url, LStripSlash(req.endpoint)),
     data |-> req.data,
     files |-> req.files,
     params |-> req.params,
     timeout |-> cfg.timeout,
     headers |-> hdrs]

\* Mutant of CloseSession: close() clears the api key
CloseSessionForgetsKey(cfg, sess) ==
    [config |-> [cfg EXCEPT !.api_key = ""], session |-> "closed", exc |-> None]

\* close(): self.session.close(), which releases the session's connections
\* and raises nothing, on an open session and on a closed one
CloseSession(cfg, sess) == [config |-> cfg, session |-> "closed", exc |-> None]

\* Mutant of ContextExit: the session is closed on normal completion only
ContextExitOnSuccessOnly(cfg, sess, exc) ==
    [config |-> cfg, session |-> IF exc = None THEN "closed" ELSE sess,
     suppress |-> FALSE]

\* __exit__(exc_type, exc_val, exc_tb): self.session.close(); it returns None,
\* so the with statement does not suppress the exception of its body
ContextExit(cfg, sess, exc) == [config |-> cfg, session |-> "closed", suppress |-> FALSE]

----------------------------------------------------------------------------
(* The inputs the model draws *)

\* Constructor arguments: the defaults, a custom configuration, and the api
\* keys the constructor refuses
CtorArgs ==
    {<<Some("sk_test_1"), DefaultBaseUrl, 30, FALSE>>,
     <<Some("sk_live_2"), <<"http://localhost:3001", "/">>, 5, TRUE>>,
     <<Some(""), DefaultBaseUrl, 30, FALSE>>,
     <<None, <<"http://localhost:3001", "/">>, 5, TRUE>>}

PathIds == {"id_1"}

\* The bytes of the uploads the client calls are made with
SampleContent == <<255, 216>>

FileArgs ==
    {PathTo(SampleContent), MissingPath, RawBytes(SampleContent),
     Stream(SampleContent, 0), NotFileData}

Statuses == {200, 201, 202, 204, 302, 400, 401, 403, 404, 429, 500, 503, 599, 600}

\* JSON objects with every combination of the keys _raise_for_status reads
ErrorBodies ==
    {MkBody("object", <<>>, <<>>, m, c, d, f, r, ra, None) :
        m \in {None, Some(<<"Invalid document">>)},
        c \in {None, Some("E_INVALID")},
        d \in {None, Some(DetailsList), Some(DetailsDict)},
        f \in {None, Some("document_type")},
        r \in {None, Some("Verification")},
        ra \in {None, Some(60)}}

\* JSON objects a verification endpoint answers with: the record itself, the
\* record under "verification", or a null under "verification"
VerificationBodies ==
    {VerificationRecord,
     [EmptyObject EXCEPT !.verification = Some(VerificationRecord)],
     [EmptyObject EXCEPT !.verification = Some(NonObject("null"))]}

NonObjectBodies == {NonObject(ty) : ty \in {"array", "string", "number", "null"}}

TextBodies == {TextBody(<<"">>), TextBody(<<"<html>Bad Gateway</html>">>)}

Bodies == ErrorBodies \cup VerificationBodies \cup NonObjectBodies \cup TextBodies

\* The bytes a file can hold
ByteValues == {0, 255}
FileContents == UNION {[1..k -> ByteValues] : k \in 0..MaxFileLen}

\* field_name of a _prepare_file call: its default and the three the public
\* methods pass
FieldNames == {"file", "document", "selfie", "back_of_id"}

\* An optional argument is omitted, given an empty or zero value, or given a
\* value that is neither
FalsyValue(param) ==
    CASE param = "sandbox" -> ABool(FALSE)
      [] param \in {"limit", "offset"} -> AInt(<<"0">>)
      [] param = "metadata" -> ADict(<<>>)
      [] param = "events" -> AList(<<>>)
      [] OTHER -> AStr(<<>>)

TruthyValue(param) ==
    CASE param = "sandbox" -> ABool(TRUE)
      [] param \in {"limit", "offset"} -> AInt(<<"5">>)
      [] param = "metadata" -> ADict(<<"source", "web">>)
      [] param = "events" -> AList(<<"verification.completed">>)
      [] OTHER -> AStr(<<"<", param, ">">>)

ArgChoice(param, mode) ==
    CASE mode = "omitted" -> None
      [] mode = "falsy" -> Some(FalsyValue(param))
      [] OTHER -> Some(TruthyValue(param))

\* Every way of omitting or giving the optional arguments of method m
ArgsOf(m) ==
    {[param \in OptionalParams |->
         IF param \in Optionals(m) THEN ArgChoice(param, modes[param]) ELSE None] :
       modes \in [Optionals(m) -> {"omitted", "falsy", "truthy"}]}

\* What the transport gives the calls made in a with-block
LifeResponses ==
    {HttpResponse(200, [EmptyObject EXCEPT !.verification = Some(VerificationRecord)]),
     HttpResponse(404, EmptyObject),
     HttpResponse(500, TextBody(<<"<html>Bad Gateway</html>">>)),
     HttpResponse(400, NonObject("array")),
     TransportFailure("ReadTimeout")}

\* What the body of a with-block raises when no client call does
BodyExceptions == {BuiltinExc("RuntimeError", <<"body failed">>)}

\* The calls that run concurrently: a method, its identifier argument, its file
\* and its optional arguments
ConcCalls ==
    {[method |-> "start_verification", id |-> "id_1", file |-> None,
      args |-> [NoArgs EXCEPT !["sandbox"] = Some(ABool(TRUE))]],
     [method |-> "get_verification_status", id |-> "id_2", file |-> None,
      args |-> NoArgs],
     [method |-> "verify_document", id |-> "id_1", file |-> Some(RawBytes(SampleContent)),
      args |-> [NoArgs EXCEPT !["metadata"] = Some(ADict(<<"source", "web">>))]],
     [method |-> "health_check", id |-> "id_1", file |-> None, args |-> NoArgs]}

\* What the transport gives them
ConcResponses ==
    {HttpResponse(200, [EmptyObject EXCEPT !.verification = Some(VerificationRecord)]),
     HttpResponse(200, VerificationRecord),
     HttpResponse(404, EmptyObject),
     TransportFailure("ReadTimeout")}

\* The clients whose requests are built: the default base URL, one with a
\* trailing slash and one with a path prefix, each with sandbox off and on
BuildCtorArgs ==
    {<<Some("sk_test_1"), base_url, 30, sandbox>> :
        base_url \in {DefaultBaseUrl, <<"http://localhost:3001", "/">>,
                      <<"http://host", "/v1">>},
        sandbox \in BOOLEAN}

----------------------------------------------------------------------------
(* The client as a state machine *)

\* No with-block has been entered
NoBlock == [phase |-> "none", body |-> None, raised |-> None, closes |-> 0,
            closeExc |-> None]

\* No concurrent call has been started
NoThreads == <<>>

\* No _prepare_file call has been made
NothingPrepared == [path |-> None, bytes |-> None, stream |-> None]

Idle ==
    [method |-> "", file |-> None, phase |-> "idle", request |-> None, sent |-> 0,
     rfs |-> 0]

Init ==
    /\ ctorArgs = None
    /\ ctor = "unconstructed"
    /\ ctorExc = None
    /\ config = None
    /\ session = "none"
    /\ headers = None
    /\ nCalls = 0
    /\ nRequests = 0
    /\ call = Idle
    /\ response = None
    /\ mrOutcome = None
    /\ outcome = None
    /\ sigIn = None
    /\ sigOut = None
    /\ prepIn = None
    /\ prepOut = NothingPrepared
    /\ buildIn = None
    /\ built = None
    /\ block = NoBlock
    /\ threads = NoThreads

\* client = IdswyftClient(api_key, base_url, timeout, sandbox)
Construct ==
    /\ ctor = "unconstructed"
    /\ \E a \in CtorArgs :
        LET r == ClientInit(a[1], a[2], a[3], a[4])
        IN  /\ ctorArgs' = Some(a)
            /\ ctor' = IF r.exc = None THEN "ok" ELSE "raised"
            /\ ctorExc' = r.exc
            /\ config' = r.config
            /\ session' = r.session
            /\ headers' = r.headers
    /\ UNCHANGED <<nCalls, nRequests, call, response, mrOutcome, outcome, sigIn, sigOut,
                   pureVars, scopeVars>>

\* A public method without a file argument, up to its session.request(...) call
Invoke ==
    /\ ctor = "ok"
    /\ call.phase # "inflight"
    /\ nCalls < MaxCalls
    /\ \E m \in PublicMethods, id \in PathIds :
        /\ FileField(m) = ""
        /\ LET req == BuildRequest(m, id, None, NoArgs)
           IN  call' = [method |-> m, file |-> None, phase |-> "inflight",
                        request |-> Some(SessionRequest(config[1], headers[1],
                                                        req.value[1])),
                        sent |-> 1, rfs |-> 0]
    /\ nCalls' = nCalls + 1
    /\ nRequests' = nRequests + 1
    /\ response' = None
    /\ mrOutcome' = None
    /\ outcome' = None
    /\ UNCHANGED <<ctorArgs, ctor, ctorExc, config, session, headers, sigIn, sigOut,
                   pureVars, scopeVars>>

\* verify_document, verify_selfie, verify_back_of_id: _prepare_file runs before
\* _make_request, and its exception ends the call with no request issued
InvokeUpload ==
    /\ ctor = "ok"
    /\ call.phase # "inflight"
    /\ nCalls < MaxCalls
    /\ \E m \in PublicMethods, id \in PathIds, file \in FileArgs :
        /\ FileField(m) # ""
        /\ LET req == BuildRequest(m, id, Some(file), NoArgs)
           IN  IF req.kind = "raise"
               THEN /\ call' = [method |-> m, file |-> Some(file), phase |-> "done",
                                request |-> None, sent |-> 0, rfs |-> 0]
                    /\ outcome' = Some(req)
                    /\ nRequests' = nRequests
               ELSE /\ call' = [method |-> m, file |-> Some(file), phase |-> "inflight",
                                request |-> Some(SessionRequest(config[1], headers[1],
                                                                req.value[1])),
                                sent |-> 1, rfs |-> 0]
                    /\ outcome' = None
                    /\ nRequests' = nRequests + 1
    /\ nCalls' = nCalls + 1
    /\ response' = None
    /\ mrOutcome' = None
    /\ UNCHANGED <<ctorArgs, ctor, ctorExc, config, session, headers, sigIn, sigOut,
                   pureVars, scopeVars>>

\* Mutant of Complete: a call that failed is sent once more
CompleteWithRetry(resp) ==
    LET mr == MakeRequest(config[1].timeout, resp)
        again == IF mr.out.kind = "raise" THEN 1 ELSE 0
    IN  /\ call' = [call EXCEPT !.phase = "done", !.rfs = mr.rfs,
                                !.sent = call.sent + again]
        /\ nRequests' = nRequests + again
        /\ response' = Some(resp)
        /\ mrOutcome' = Some(mr.out)
        /\ outcome' = Some(Surface(call.method, mr.out))
        /\ UNCHANGED <<ctorArgs, ctor, ctorExc, config, session, headers, nCalls, sigIn, sigOut,
                       pureVars, scopeVars>>

\* The rest of the call once the transport has answered resp or raised it
Complete(resp) ==
    LET mr == MakeRequest(config[1].timeout, resp)
    IN  /\ call' = [call EXCEPT !.phase = "done", !.rfs = mr.rfs]
        /\ response' = Some(resp)
        /\ mrOutcome' = Some(mr.out)
        /\ outcome' = Some(Surface(call.method, mr.out))
        /\ UNCHANGED <<ctorArgs, ctor, ctorExc, config, session, headers, nCalls, nRequests,
                       sigIn, sigOut, pureVars, scopeVars>>

\* The server answers the request in flight
Respond ==
    /\ call.phase = "inflight"
    /\ \E status \in Statuses, body \in Bodies : Complete(HttpResponse(status, body))

\* session.request(...) raises instead of returning a response
TransportFail ==
    /\ call.phase = "inflight"
    /\ \E cls \in TransportExceptions : Complete(TransportFailure(cls))

Next == Construct \/ Invoke \/ InvokeUpload \/ Respond \/ TransportFail

Spec == Init /\ [][Next]_vars

----------------------------------------------------------------------------
(* verify_webhook_signature as a state machine: it is static and touches no
   client state, so its calls are explored on their own *)

\* Sequences over chars of length at most n
TextsUpTo(chars, n) == UNION {[1..k -> chars] : k \in 0..n}

ArgTexts == TextsUpTo({"a", NonAscii}, MaxTextLen)

\* payload and secret arguments
ArgValues ==
    {PyStr(t) : t \in ArgTexts}
        \cup {PyNone, PyBytes(<<"a">>), PyInt(<<"0">>), PyInt(<<"7">>)}

\* The digest the server would send for payload and secret (for arguments
\* that are not str: some digest)
DigestFor(payload, secret) ==
    IF payload.ty = "str" /\ secret.ty = "str"
    THEN HexDigest(Utf8(secret.s), Utf8(payload.s))
    ELSE HexDigest(<<>>, <<>>)

\* d with its i-th character replaced by c
Flip(d, i, c) == [d EXCEPT ![i] = c]

FlipChars == {HexChars[i] : i \in 1..Len(HexChars)} \cup {"s", "=", "A", NonAscii}

\* Signature texts built from the digest d: the digest bare and prefixed, with
\* one character replaced, cut, extended, and with "sha256=" in other places
SignatureTexts(d) ==
    {d, SigPrefix \o d, SigPrefix \o SigPrefix \o d, d \o SigPrefix, SigPrefix, <<>>,
     SubSeq(d, 1, Len(d) - 1), d \o <<"0">>, SigPrefix \o SubSeq(d, 1, Len(d) - 1),
     <<"s", "h", "a">> \o SigPrefix \o <<"2", "5", "6", "=">> \o d}
        \cup {SubSeq(d, 1, i) \o SigPrefix \o SubSeq(d, i + 1, Len(d)) :
                 i \in 1..(Len(d) - 1)}
        \cup {Flip(d, i, c) : i \in 1..Len(d), c \in FlipChars}
        \cup {SigPrefix \o Flip(d, i, c) : i \in 1..Len(d), c \in FlipChars}

SignatureValues(d) ==
    {PyStr(t) : t \in SignatureTexts(d)}
        \cup {PyNone, PyBytes(d), PyBytes(SigPrefix \o d), PyInt(<<"0">>), PyInt(<<"7">>)}

\* The arguments of one verify_webhook_signature call
SigInit ==
    /\ ctorArgs = None
    /\ ctor = "unconstructed"
    /\ ctorExc = None
    /\ config = None
    /\ session = "none"
    /\ headers = None
    /\ nCalls = 0
    /\ nRequests = 0
    /\ call = Idle
    /\ response = None
    /\ mrOutcome = None
    /\ outcome = None
    /\ \E payload \in ArgValues, secret \in ArgValues :
         \E signature \in SignatureValues(DigestFor(payload, secret)) :
            sigIn = Some([payload |-> payload, signature |-> signature,
                          secret |-> secret])
    /\ sigOut = None
    /\ prepIn = None
    /\ prepOut = NothingPrepared
    /\ buildIn = None
    /\ built = None
    /\ block = NoBlock
    /\ threads = NoThreads

\* IdswyftClient.verify_webhook_signature(payload, signature, secret)
VerifySignature ==
    /\ sigIn # None
    /\ sigOut = None
    /\ sigOut' = Some(VerifyWebhookSignature(sigIn[1].payload, sigIn[1].signature,
                                             sigIn[1].secret))
    /\ UNCHANGED <<sigIn, ctorArgs, ctor, ctorExc, config, session, headers, nCalls, nRequests, call,
                   response, mrOutcome, outcome, pureVars, scopeVars>>

SigNext == VerifySignature

SigSpec == SigInit /\ [][SigNext]_vars

----------------------------------------------------------------------------
(* _prepare_file as a state machine: one content is handed to it as the path of
   a file that holds it, as bytes, and as a stream over it *)

\* No client call and no signature call is part of these explorations
NothingElse ==
    /\ ctorArgs = None
    /\ ctor = "unconstructed"
    /\ ctorExc = None
    /\ config = None
    /\ session = "none"
    /\ headers = None
    /\ nCalls = 0
    /\ nRequests = 0
    /\ call = Idle
    /\ response = None
    /\ mrOutcome = None
    /\ outcome = None
    /\ sigIn = None
    /\ sigOut = None

PrepInit ==
    /\ NothingElse
    /\ \E content \in FileContents, field_name \in FieldNames :
          prepIn = Some([content |-> content, field_name |-> field_name, pos |-> 0])
    /\ prepOut = NothingPrepared
    /\ buildIn = None
    /\ built = None
    /\ block = NoBlock
    /\ threads = NoThreads

\* _prepare_file(path, field_name), the file at path holding the content
PrepareFromPath ==
    /\ prepIn # None
    /\ prepOut.path = None
    /\ prepOut' = [prepOut EXCEPT !.path =
                      Some(PrepareFile(PathTo(prepIn[1].content), prepIn[1].field_name))]
    /\ UNCHANGED <<clientVars, sigVars, prepIn, buildIn, built, scopeVars>>

\* _prepare_file(content, field_name)
PrepareFromBytes ==
    /\ prepIn # None
    /\ prepOut.bytes = None
    /\ prepOut' = [prepOut EXCEPT !.bytes =
                      Some(PrepareFile(RawBytes(prepIn[1].content), prepIn[1].field_name))]
    /\ UNCHANGED <<clientVars, sigVars, prepIn, buildIn, built, scopeVars>>

\* _prepare_file(io.BytesIO(content), field_name): read() leaves the stream at
\* its end
PrepareFromStream ==
    /\ prepIn # None
    /\ prepOut.stream = None
    /\ prepOut' = [prepOut EXCEPT !.stream =
                      Some(PrepareFile(Stream(prepIn[1].content, prepIn[1].pos),
                                       prepIn[1].field_name))]
    /\ prepIn' = Some([prepIn[1] EXCEPT !.pos = Len(prepIn[1].content)])
    /\ UNCHANGED <<clientVars, sigVars, buildIn, built, scopeVars>>

PrepNext == PrepareFromPath \/ PrepareFromBytes \/ PrepareFromStream

PrepSpec == PrepInit /\ [][PrepNext]_vars

----------------------------------------------------------------------------
(* The public methods up to session.request(...), as a state machine: a
   client, a method and its arguments are drawn, and one step builds the
   request *)

BuildInit ==
    /\ \E a \in BuildCtorArgs :
        LET r == ClientInit(a[1], a[2], a[3], a[4])
        IN  /\ ctorArgs = Some(a)
            /\ ctor = "ok"
            /\ ctorExc = r.exc
            /\ config = r.config
            /\ session = r.session
            /\ headers = r.headers
    /\ nCalls = 0
    /\ nRequests = 0
    /\ call = Idle
    /\ response = None
    /\ mrOutcome = None
    /\ outcome = None
    /\ sigIn = None
    /\ sigOut = None
    /\ prepIn = None
    /\ prepOut = NothingPrepared
    /\ \E m \in PublicMethods, id \in PathIds :
        \E file \in IF FileField(m) = "" THEN {None} ELSE {Some(f) : f \in FileArgs} :
          \E a \in ArgsOf(m) :
            buildIn = Some([method |-> m, id |-> id, file |-> file, args |-> a])
    /\ built = None
    /\ block = NoBlock
    /\ threads = NoThreads

\* client.<method>(...) until it calls session.request or raises
Build ==
    /\ buildIn # None
    /\ built = None
    /\ LET req == BuildRequest(buildIn[1].method, buildIn[1].id, buildIn[1].file,
                               buildIn[1].args)
       IN  built' = Some(IF req.kind = "raise" THEN req
                         ELSE Return(SessionRequest(config[1], headers[1], req.value[1])))
    /\ UNCHANGED <<clientVars, sigVars, prepIn, prepOut, buildIn, scopeVars>>

BuildNext == Build

BuildSpec == BuildInit /\ [][BuildNext]_vars

----------------------------------------------------------------------------
(* The life of a client as a state machine: construction, a with-block around
   it, whole calls, close() *)

\* The with statement leaves its block: __exit__ runs, and the exception of
\* the body (None: none) goes on to the caller unless __exit__ suppressed it
LeaveBlock(exc) ==
    LET x == ContextExit(config[1], session, exc)
    IN  /\ session' = x.session
        /\ config' = Some(x.config)
        /\ block' = [block EXCEPT !.phase = "exited", !.body = exc,
                                  !.raised = IF x.suppress THEN None ELSE exc]

LifeUnchanged == UNCHANGED <<ctorArgs, ctor, ctorExc, headers, sigVars, pureVars, threads>>

\* with client: -- __enter__ returns self
Enter ==
    /\ ctor = "ok"
    /\ block.phase = "none"
    /\ block' = [block EXCEPT !.phase = "inside"]
    /\ UNCHANGED <<config, session, nCalls, nRequests, call, response, mrOutcome, outcome>>
    /\ LifeUnchanged

\* A whole public call, outside a with-block or in its body; an exception
\* raised in the body leaves the block
LifeCall ==
    /\ ctor = "ok"
    /\ nCalls < MaxCalls
    /\ \E m \in PublicMethods, id \in PathIds, resp \in LifeResponses :
        /\ FileField(m) = ""
        /\ LET req == BuildRequest(m, id, None, NoArgs)
               mr == MakeRequest(config[1].timeout, resp)
               out == Surface(m, mr.out)
           IN  /\ call' = [method |-> m, file |-> None, phase |-> "done",
                           request |-> Some(SessionRequest(config[1], headers[1],
                                                           req.value[1])),
                           sent |-> 1, rfs |-> mr.rfs]
               /\ response' = Some(resp)
               /\ mrOutcome' = Some(mr.out)
               /\ outcome' = Some(out)
               /\ IF block.phase = "inside" /\ out.kind = "raise"
                  THEN LeaveBlock(out.exc)
                  ELSE UNCHANGED <<config, session, block>>
    /\ nCalls' = nCalls + 1
    /\ nRequests' = nRequests + 1
    /\ LifeUnchanged

\* The body of the with-block raises something of its own
BodyRaises ==
    /\ block.phase = "inside"
    /\ \E e \in BodyExceptions : LeaveBlock(Some(e))
    /\ UNCHANGED <<nCalls, nRequests, call, response, mrOutcome, outcome>>
    /\ LifeUnchanged

\* The body of the with-block ends
BodyEnds ==
    /\ block.phase = "inside"
    /\ LeaveBlock(None)
    /\ UNCHANGED <<nCalls, nRequests, call, response, mrOutcome, outcome>>
    /\ LifeUnchanged

\* client.close()
Close ==
    /\ ctor = "ok"
    /\ block.closes < MaxCloses
    /\ LET x == CloseSession(config[1], session)
       IN  /\ session' = x.session
           /\ config' = Some(x.config)
           /\ block' = [block EXCEPT !.closes = block.closes + 1, !.closeExc = x.exc]
    /\ UNCHANGED <<nCalls, nRequests, call, response, mrOutcome, outcome>>
    /\ LifeUnchanged

LifeNext == Construct \/ Enter \/ LifeCall \/ BodyRaises \/ BodyEnds \/ Close

LifeSpec == Init /\ [][LifeNext]_vars

----------------------------------------------------------------------------
(* Concurrent calls on one client as a state machine: each thread runs one
   public method, whose data, files, url and response are locals of that call;
   the threads share the client's attributes, which they only read *)

ThreadIds == 1..NumThreads

IdleThread ==
    [phase |-> "idle", input |-> None, request |-> None, response |-> None,
     outcome |-> None]

ConcInit ==
    /\ ctorArgs = None
    /\ ctor = "unconstructed"
    /\ ctorExc = None
    /\ config = None
    /\ session = "none"
    /\ headers = None
    /\ nCalls = 0
    /\ nRequests = 0
    /\ call = Idle
    /\ response = None
    /\ mrOutcome = None
    /\ outcome = None
    /\ sigIn = None
    /\ sigOut = None
    /\ prepIn = None
    /\ prepOut = NothingPrepared
    /\ buildIn = None
    /\ built = None
    /\ block = NoBlock
    /\ threads = [t \in ThreadIds |-> IdleThread]

ConcUnchanged ==
    UNCHANGED <<ctorArgs, ctor, ctorExc, config, session, headers, call, response,
                mrOutcome, outcome, sigVars, pureVars, block>>

\* Thread t calls a public method, which runs up to session.request(...)
ThreadStart(t) ==
    /\ ctor = "ok"
    /\ threads[t].phase = "idle"
    /\ \E c \in ConcCalls :
        LET req == BuildRequest(c.method, c.id, c.file, c.args)
        IN  threads' = [threads EXCEPT ![t] =
                           [phase |-> "inflight", input |-> Some(c),
                            request |-> Some(SessionRequest(config[1], headers[1],
                                                            req.value[1])),
                            response |-> None, outcome |-> None]]
    /\ nCalls' = nCalls + 1
    /\ nRequests' = nRequests + 1
    /\ ConcUnchanged

\* Mutant of ThreadAnswer: the request is kept on the client, so that the
\* answer to one call replaces the request of the calls still in flight
ThreadAnswerSharedRequest(t) ==
    /\ threads[t].phase = "inflight"
    /\ \E resp \in ConcResponses :
        LET mr == MakeRequest(config[1].timeout, resp)
        IN  threads' = [u \in ThreadIds |->
                           IF u = t
                           THEN [threads[t] EXCEPT
                                    !.phase = "done", !.response = Some(resp),
                                    !.outcome = Some(Surface(threads[t].input[1].method,
                                                             mr.out))]
                           ELSE IF threads[u].phase = "inflight"
                           THEN [threads[u] EXCEPT !.request = threads[t].request]
                           ELSE threads[u]]
    /\ UNCHANGED <<nCalls, nRequests>>
    /\ ConcUnchanged

\* The transport answers the request of thread t, and the call of t ends
ThreadAnswer(t) ==
    /\ threads[t].phase = "inflight"
    /\ \E resp \in ConcResponses :
        LET mr == MakeRequest(config[1].timeout, resp)
        IN  threads' = [threads EXCEPT ![t] =
                           [@ EXCEPT !.phase = "done", !.response = Some(resp),
                                     !.outcome = Some(Surface(threads[t].input[1].method,
                                                              mr.out))]]
    /\ UNCHANGED <<nCalls, nRequests>>
    /\ ConcUnchanged

ConcNext ==
    \/ Construct
    \/ \E t \in ThreadIds : ThreadStart(t)
    \/ \E t \in ThreadIds : ThreadAnswer(t)

ConcSpec == ConcInit /\ [][ConcNext]_vars

----------------------------------------------------------------------------
(* Claims about the client, checked under Spec *)

\* The current call has ended
CallDone == call.phase = "done" /\ outcome # None
\* ... after the transport answered or raised
Responded == CallDone /\ response # None /\ mrOutcome # None
\* ... with a response whose status is neither 200 nor 201
HttpFailure ==
    Responded /\ response[1].t = "http" /\ response[1].status \notin {200, 201}
\* The error body is a JSON object (any subset of its keys) or text that is
\* not JSON, so that error_data is a mapping
ErrorDataIsMapping == response[1].body.ty \in {"object", "text"}

\* The table of exception kinds by status code
KindOfStatus(status) ==
    CASE status = 400 -> "IdswyftValidationError"
      [] status = 401 -> "IdswyftAuthenticationError"
      [] status = 404 -> "IdswyftNotFoundError"
      [] status = 429 -> "IdswyftRateLimitError"
      [] status \in 500..599 -> "IdswyftServerError"
      [] OTHER -> "IdswyftAPIError"

IsVerificationRecord(v) == v.ty = "object" /\ v.extra = RecordFields

\* C2 as stated: whatever the server answers, a verification-producing call
\* either returns a verification record or raises an exception of the SDK
\* taxonomy; it returns nothing else and raises nothing else.
C2_RecordOrTaxonomyError ==
    (Responded /\ call.method \in VerificationMethods) =>
        \/ /\ outcome[1].kind = "return"
           /\ IsVerificationRecord(outcome[1].value[1])
        \/ /\ outcome[1].kind = "raise"
           /\ outcome[1].exc[1].cls \in Taxonomy

\* C3: when session.request raises (a timeout, a connection error, any other
\* requests exception), _make_request raises IdswyftNetworkError with
\* status_code None and never invokes _raise_for_status for that call.
C3_TransportFailureIsNetworkError ==
    (Responded /\ response[1].t = "exc") =>
        /\ mrOutcome[1].kind = "raise"
        /\ mrOutcome[1].exc[1].cls = "IdswyftNetworkError"
        /\ mrOutcome[1].exc[1].status_code = None
        /\ call.rfs = 0

\* C3 witness: a transport exception that is neither a timeout nor a
\* connection error ended the call with IdswyftNetworkError
C3_Witness ==
    /\ Responded
    /\ response[1].t = "exc"
    /\ response[1].cls = "TooManyRedirects"
    /\ mrOutcome[1].kind = "raise"
    /\ mrOutcome[1].exc[1].cls = "IdswyftNetworkError"

\* C8: IdswyftClient(api_key="") raises ValueError, and then no session
\* exists, no request was issued, and there is no client to call.
C8_EmptyKeyRaisesFirst ==
    (ctorArgs # None /\ ctorArgs[1][1] = Some("")) =>
        /\ ctor = "raised"
        /\ ctorExc # None
        /\ ctorExc[1].cls = "ValueError"
        /\ session = "none"
        /\ config = None
        /\ nRequests = 0
        /\ nCalls = 0

\* C8 witness: the constructor was called with an empty api key and raised
C8_Witness ==
    /\ ctorArgs # None
    /\ ctorArgs[1][1] = Some("")
    /\ ctor = "raised"
    /\ ctorExc # None

C10_ErrorsPropagateUnchanged ==
    (Responded /\ call.method # "health_check" /\ mrOutcome[1].kind = "raise") =>
        outcome = mrOutcome

\* C10 witness: get_verification_status got a 404 naming the resource, and
\* the caller got the IdswyftNotFoundError _make_request raised
C10_Witness ==
    /\ Responded
    /\ call.method = "get_verification_status"
    /\ response[1].t = "http"
    /\ response[1].status = 404
    /\ response[1].body.resource = Some("Verification")
    /\ outcome[1].kind = "raise"
    /\ outcome[1].exc[1] = IdswyftNotFoundError("Verification")

\* C11 as stated: for a response whose status is neither 200 nor 201,
\* _make_request raises an exception of the taxonomy whatever the body is (a
\* JSON object, a JSON value that is not an object, or text that is not
\* JSON), and for text that is not JSON the message is the raw body text
\* (IdswyftNotFoundError, whose message names the resource, aside).
C11_FailureRaisesTaxonomyOnly ==
    HttpFailure =>
        /\ mrOutcome[1].kind = "raise"
        /\ mrOutcome[1].exc[1].cls \in Taxonomy
        /\ (response[1].body.ty = "text" =>
                mrOutcome[1].exc[1].cls = "IdswyftNotFoundError"
                \/ mrOutcome[1].exc[1].message = response[1].body.raw)

\* C12: for a response with status 200 or 201, _make_request returns the
\* decoded JSON body, and when the body is empty or not JSON it returns
\* exactly {"message": "Success"} and does not raise.
C12_SuccessReturnsBodyOrMarker ==
    (Responded /\ response[1].t = "http" /\ response[1].status \in {200, 201}) =>
        /\ mrOutcome[1].kind = "return"
        /\ mrOutcome[1].value[1] =
              IF response[1].body.ty = "text"
              THEN MkBody("object", <<>>, <<>>, Some(<<"Success">>), None, None, None,
                          None, None, None)
              ELSE response[1].body

\* C12 witness: a 201 with an empty body made _make_request return the marker
C12_Witness ==
    /\ Responded
    /\ response[1].t = "http"
    /\ response[1].status = 201
    /\ response[1].body = TextBody(<<"">>)
    /\ mrOutcome[1].kind = "return"
    /\ mrOutcome[1].value[1].message = Some(<<"Success">>)

\* C13 as stated: every response whose status is neither 200 nor 201 ends
\* _make_request with an exception and never with a return value, and a 2xx
\* status such as 202 or 204 or a 3xx status raises IdswyftAPIError carrying
\* that status code.
C13_OtherStatusesRaise ==
    HttpFailure =>
        /\ mrOutcome[1].kind = "raise"
        /\ (response[1].status \in 200..399 =>
               /\ mrOutcome[1].exc[1].cls = "IdswyftAPIError"
               /\ mrOutcome[1].exc[1].status_code = Some(response[1].status))

\* C14 as stated: in verify_document, verify_selfie and
\* get_verification_status, a decoded success body with a "verification" key
\* makes the method return the value under the key, and a body without it
\* makes the method return the body itself.
C14_UnwrapOrSelf ==
    (/\ Responded
     /\ call.method \in {"verify_document", "verify_selfie", "get_verification_status"}
     /\ mrOutcome[1].kind = "return"
     /\ mrOutcome[1].value[1].ty = "object") =>
        /\ outcome[1].kind = "return"
        /\ outcome[1].value[1] =
              IF mrOutcome[1].value[1].verification # None
              THEN mrOutcome[1].value[1].verification[1]
              ELSE mrOutcome[1].value[1]

\* The file argument is neither a path string, bytes, nor an object with read()
FileArgIsInvalid == call.file # None /\ call.file[1].ty \notin {"str", "bytes", "stream"}

\* C18: in verify_document, verify_selfie and verify_back_of_id, a file
\* argument that is neither a path string, bytes, nor an object with a read
\* method makes the call raise ValueError, which is not an IdswyftError, and
\* no HTTP request is issued for that call.
C18_InvalidFileRaisesBeforeRequest ==
    FileArgIsInvalid =>
        /\ call.method \in {"verify_document", "verify_selfie", "verify_back_of_id"}
        /\ CallDone
        /\ outcome[1].kind = "raise"
        /\ outcome[1].exc[1].cls = "ValueError"
        /\ outcome[1].exc[1].cls \notin Taxonomy
        /\ call.sent = 0
        /\ call.request = None
        /\ response = None

\* C18 witness: verify_selfie was called with an int as the file and ended
\* in ValueError, after an earlier call of the client had issued its request
C18_Witness ==
    /\ FileArgIsInvalid
    /\ call.method = "verify_selfie"
    /\ CallDone
    /\ outcome[1].exc[1].cls = "ValueError"
    /\ nCalls = 2
    /\ nRequests = 1

\* C19: a 429 response whose body carries retry_after = n makes the call raise
\* IdswyftRateLimitError with retry_after = n and with the body's message, and
\* when the body has no retry_after key, retry_after is None.
C19_RetryAfterFromBody ==
    (HttpFailure /\ response[1].status = 429 /\ response[1].body.ty = "object") =>
        /\ outcome[1].kind = "raise"
        /\ outcome[1].exc[1].cls = "IdswyftRateLimitError"
        /\ outcome[1].exc[1].retry_after = response[1].body.retry_after
        /\ (response[1].body.message # None =>
               outcome[1].exc[1].message = response[1].body.message[1])

\* C19 witness: a 429 with a message and retry_after 60 raised
\* IdswyftRateLimitError with retry_after 60
C19_Witness ==
    /\ HttpFailure
    /\ response[1].status = 429
    /\ response[1].body.ty = "object"
    /\ response[1].body.retry_after = Some(60)
    /\ response[1].body.message = Some(<<"Invalid document">>)
    /\ outcome[1].kind = "raise"
    /\ outcome[1].exc[1].retry_after = Some(60)

\* The arguments of the current call pass the checks made before the request
PassesLocalValidation ==
    \/ call.file = None
    \/ call.file[1].ty \in {"bytes", "stream"}
    \/ call.file[1].ty = "str" /\ call.file[1].exists

\* C20: each public call issues at most one HTTP request, and exactly one
\* when its arguments pass local validation; after a failed response or a
\* transport failure no further request is issued for the call, which ends
\* with the one outcome that request determines.
C20_OneRequestPerCall ==
    /\ call.sent <= 1
    /\ nRequests <= nCalls
    /\ (call.phase # "idle" => call.sent = IF PassesLocalValidation THEN 1 ELSE 0)
    /\ (Responded =>
           /\ call.sent = 1
           /\ outcome = Some(Surface(call.method, mrOutcome[1])))

\* C20 witness: the second call of a client ended in a transport failure, and
\* the client has issued two requests in all
C20_Witness ==
    /\ Responded
    /\ response[1].t = "exc"
    /\ outcome[1].kind = "raise"
    /\ call.sent = 1
    /\ nCalls = 2
    /\ nRequests = 2

\* The arguments the client was constructed with
CtorApiKey == ctorArgs[1][1][1]
CtorBaseUrl == ctorArgs[1][2]
CtorTimeout == ctorArgs[1][3]
CtorSandbox == ctorArgs[1][4]

\* C21: every HTTP request a client issues carries the timeout the client was
\* constructed with (30 by default), in every method and every call, and a
\* request that exceeds it ends the call with IdswyftNetworkError, never with
\* a returned result.
C21_TimeoutOnEveryRequest ==
    /\ call.request # None => call.request[1].timeout = CtorTimeout
    /\ (Responded /\ response[1].t = "exc"
            /\ response[1].cls \in {"Timeout", "ConnectTimeout", "ReadTimeout"}) =>
           /\ outcome[1].kind = "raise"
           /\ outcome[1].exc[1].cls = "IdswyftNetworkError"

\* C21 witness: the second call of a client constructed with timeout 5 ran
\* into a read timeout and ended in IdswyftNetworkError
C21_Witness ==
    /\ Responded
    /\ nCalls = 2
    /\ CtorTimeout = 5
    /\ call.request[1].timeout = 5
    /\ response[1].t = "exc"
    /\ response[1].cls = "ReadTimeout"
    /\ outcome[1].kind = "raise"
    /\ outcome[1].exc[1].cls = "IdswyftNetworkError"

\* The identification headers of a client constructed with api_key
IdentificationHeaders(api_key) ==
    {<<"X-API-Key", api_key>>, <<"User-Agent", "idswyft-python/2.0.0">>,
     <<"X-SDK-Version", "2.0.0">>, <<"X-SDK-Language", "python">>}
\* Each header name in hdrs has one value
OneValuePerName(hdrs) == \A g, h \in hdrs : g[1] = h[1] => g = h

\* C22: every HTTP request a client issues carries the identification headers
\* fixed at construction, X-API-Key with the api_key the client was
\* constructed with and the User-Agent, X-SDK-Version and X-SDK-Language
\* markers, and no public method changes or drops them between calls.
C22_IdentificationHeaders ==
    /\ ctor = "ok" =>
          /\ IdentificationHeaders(CtorApiKey) \subseteq headers[1]
          /\ OneValuePerName(headers[1])
    /\ call.request # None =>
          /\ IdentificationHeaders(CtorApiKey) \subseteq call.request[1].headers
          /\ OneValuePerName(call.request[1].headers)

\* C22 witness: the second call of the client constructed with "sk_live_2"
\* is in flight with that key in X-API-Key
C22_Witness ==
    /\ nCalls = 2
    /\ call.phase = "inflight"
    /\ CtorApiKey = "sk_live_2"
    /\ <<"X-API-Key", "sk_live_2">> \in call.request[1].headers
    /\ <<"User-Agent", "idswyft-python/2.0.0">> \in call.request[1].headers

\* The error body of the response and the exception _make_request raised
ErrorBody == response[1].body
RaisedExc == mrOutcome[1].exc[1]
\* The statuses _raise_for_status has no branch of its own for
GenericStatus(status) ==
    status \notin {400, 401, 404, 429} /\ ~(500 <= status /\ status < 600)

\* C27: the kind-specific fields of a raised error are filled from the error
\* body, with defaults for the missing keys: ValidationError.field is the
\* body's "field" (None when absent) and validation_errors is the body's
\* "details" when that is a list and the empty list otherwise;
\* NotFoundError.resource is the body's "resource" or "Resource", and its
\* message is "<resource> not found" whatever "message" the body carried; the
\* generic IdswyftAPIError carries the response's status code and the body's
\* "code" and "details"; the message is "API request failed" when the body
\* has no "message".
C27_KindSpecificFields ==
    (HttpFailure /\ ErrorBody.ty = "object") =>
        /\ mrOutcome[1].kind = "raise"
        /\ response[1].status = 400 =>
              /\ RaisedExc.cls = "IdswyftValidationError"
              /\ RaisedExc.field = ErrorBody.field
              /\ RaisedExc.validation_errors =
                    (IF ErrorBody.details # None /\ ErrorBody.details[1].ty = "list"
                         THEN ErrorBody.details[1] ELSE PyList(<<>>))
        /\ response[1].status = 404 =>
              /\ RaisedExc.cls = "IdswyftNotFoundError"
              /\ RaisedExc.resource =
                    Some(IF ErrorBody.resource = None
                             THEN "Resource" ELSE ErrorBody.resource[1])
              /\ RaisedExc.message = <<RaisedExc.resource[1], " not found">>
        /\ GenericStatus(response[1].status) =>
              /\ RaisedExc.cls = "IdswyftAPIError"
              /\ RaisedExc.status_code = Some(response[1].status)
              /\ RaisedExc.error_code = ErrorBody.code
              /\ RaisedExc.details = ErrorBody.details
        /\ response[1].status # 404 =>
              RaisedExc.message =
                  (IF ErrorBody.message = None
                       THEN <<"API request failed">> ELSE ErrorBody.message[1])

\* C27 witness: a 404 whose body names the resource and carries a message of
\* its own raised IdswyftNotFoundError with the message built from the resource
C27_Witness ==
    /\ HttpFailure
    /\ response[1].status = 404
    /\ ErrorBody.ty = "object"
    /\ ErrorBody.resource = Some("Verification")
    /\ ErrorBody.message = Some(<<"Invalid document">>)
    /\ mrOutcome[1].kind = "raise"
    /\ RaisedExc.resource = Some("Verification")
    /\ RaisedExc.message = <<"Verification", " not found">>

\* C28 as stated: for every response whose status is neither 200 nor 201, the
\* status_code of the exception raised equals the status code of that
\* response, for every status in 500..599 as for 400, 401, 404, 429 and the
\* generic case; only IdswyftNetworkError has status_code None.  Stated for
\* the bodies that give _raise_for_status a mapping, where it runs to one of
\* its raise statements.
C28_StatusCodeIsResponseStatus ==
    /\ (HttpFailure /\ ErrorDataIsMapping) =>
          /\ mrOutcome[1].kind = "raise"
          /\ RaisedExc.status_code = Some(response[1].status)
    /\ (Responded /\ mrOutcome[1].kind = "raise" /\ RaisedExc.status_code = None) =>
          RaisedExc.cls = "IdswyftNetworkError"

----------------------------------------------------------------------------
(* Claims about the life of a client, checked under LifeSpec *)

\* C23: the configuration of a client is unchanged by every operation: after
\* any sequence of public calls, successful or failing, and after close, its
\* api_key, base_url, timeout and sandbox are the values set at construction.
C23_ConfigUnchanged ==
    ctor = "ok" =>
        /\ config # None
        /\ config[1].api_key = CtorApiKey
        /\ config[1].base_url = RStripSlash(CtorBaseUrl)
        /\ config[1].timeout = CtorTimeout
        /\ config[1].sandbox = CtorSandbox

\* C23 witness: a client has made a call that returned and then one that
\* raised, was closed, and has the configuration it was constructed with
C23_Witness ==
    /\ ctor = "ok"
    /\ nCalls = 2
    /\ block.closes >= 1
    /\ outcome # None
    /\ outcome[1].kind = "raise"
    /\ config[1].api_key = "sk_live_2"
    /\ config[1].base_url = <<"http://localhost:3001">>
    /\ config[1].timeout = 5
    /\ config[1].sandbox = TRUE

\* C24: the session of a client used as a context manager is closed on every
\* way out of the with-block, normal completion and an exception of the body
\* (an IdswyftError of a call included); __exit__ does not suppress that
\* exception, which reaches the caller with the session closed; close()
\* releases the same session and can be called again without error.
C24_SessionClosedOnEveryExit ==
    /\ block.phase = "exited" =>
          /\ session = "closed"
          /\ block.raised = block.body
    /\ block.closes >= 1 =>
          /\ session = "closed"
          /\ block.closeExc = None

\* C24 witness: a call in the with-block raised IdswyftServerError, which left
\* the block with the session closed, and close() was then called twice
C24_Witness ==
    /\ block.phase = "exited"
    /\ block.body # None
    /\ block.body[1].cls = "IdswyftServerError"
    /\ block.raised = block.body
    /\ outcome = Some(Raise(block.body[1]))
    /\ session = "closed"
    /\ block.closes = 2

----------------------------------------------------------------------------
(* Claims about concurrent calls, checked under ConcSpec *)

\* The request the call with input c makes on a client configured as cfg
OwnRequest(cfg, c) ==
    [method |-> HttpMethod(c.method),
     url |-> UrlJoin(cfg.base_url, LStripSlash(Endpoint(c.method, c.id))),
     data |-> FormData(c.method, c.id, c.args),
     files |-> IF c.file = None THEN None
               ELSE Some(<<FileField(c.method),
                           PrepareFile(c.file[1], FileField(c.method)).value[1]>>),
     params |-> QueryParams(c.method, c.args)]

\* C25: when several calls run concurrently on one client, in any
\* interleaving, the outgoing request of each (method, URL, form data, files,
\* query parameters) is built from its own arguments only, and the outcome of
\* each is determined by the response to its own request only.
C25_CallsAreIsolated ==
    \A t \in DOMAIN threads :
        /\ threads[t].request # None =>
              LET r == threads[t].request[1]
              IN  [method |-> r.method, url |-> r.url, data |-> r.data,
                   files |-> r.files, params |-> r.params]
                      = OwnRequest(config[1], threads[t].input[1])
        /\ threads[t].phase = "done" =>
              threads[t].outcome =
                  Some(Surface(threads[t].input[1].method,
                               MakeRequest(config[1].timeout, threads[t].response[1]).out))

\* C25 witness: while start_verification is in flight on thread 1,
\* get_verification_status on thread 2 has been answered 404 and has raised
C25_Witness ==
    /\ threads[1].phase = "inflight"
    /\ threads[1].input[1].method = "start_verification"
    /\ threads[2].phase = "done"
    /\ threads[2].input[1].method = "get_verification_status"
    /\ threads[2].response[1].status = 404
    /\ threads[2].outcome[1].kind = "raise"
    /\ threads[1].request[1].url # threads[2].request[1].url

----------------------------------------------------------------------------
(* Claims about _prepare_file, checked under PrepSpec *)

PrepKinds == {"path", "bytes", "stream"}

\* C17: given the same byte content as a file-system path, as raw bytes, or as
\* a readable stream, _prepare_file returns the tuple (field_name, content,
\* "application/octet-stream"): the content bytes are identical in the three
\* cases and the field name is the one passed in.
C17_SameTupleFromPathBytesStream ==
    prepIn # None =>
        /\ \A k \in PrepKinds :
              prepOut[k] # None =>
                  /\ prepOut[k][1].kind = "return"
                  /\ prepOut[k][1].value[1] =
                        <<prepIn[1].field_name, prepIn[1].content,
                          "application/octet-stream">>
        /\ \A j, k \in PrepKinds :
              (prepOut[j] # None /\ prepOut[k] # None) => prepOut[j] = prepOut[k]

\* C17 witness: a two-byte content was prepared from its path, its bytes and
\* its stream under the field name "selfie"
C17_Witness ==
    /\ prepIn # None
    /\ Len(prepIn[1].content) = 2
    /\ prepIn[1].field_name = "selfie"
    /\ \A k \in PrepKinds : prepOut[k] # None /\ prepOut[k][1].kind = "return"

----------------------------------------------------------------------------
(* Claims about the outgoing form data and query parameters, checked under
   BuildSpec *)

\* The call drawn has reached session.request(...)
BuildDone == buildIn # None /\ built # None /\ built[1].kind = "return"
BuildArgs == buildIn[1].args
\* The <<key, value>> pairs of the outgoing form data and query parameters
SentPairs ==
    (IF built[1].value[1].data = None THEN {} ELSE built[1].value[1].data[1])
    \cup (IF built[1].value[1].params = None THEN {} ELSE built[1].value[1].params[1])
SentKeys == {pair[1] : pair \in SentPairs}

\* C15: in every public method, an optional parameter the caller leaves at
\* None is not a key of the outgoing form data or query parameters, and no
\* key is sent with a null value.
C15_OmittedNeverSent ==
    BuildDone =>
        /\ \A param \in Optionals(buildIn[1].method) :
              BuildArgs[param] = None => param \notin SentKeys
        /\ \A pair \in SentPairs : pair[2].ty # "NoneType"

\* C15 witness: update_webhook was called with secret alone, and its form
\* data is the secret alone
C15_Witness ==
    /\ BuildDone
    /\ buildIn[1].method = "update_webhook"
    /\ BuildArgs["url"] = None
    /\ BuildArgs["events"] = None
    /\ BuildArgs["secret"] # None
    /\ SentKeys = {"secret"}

\* The value a given argument is sent as: str(...) of limit and offset,
\* json.dumps(...) of metadata, the argument itself otherwise
SentForm(param, v) ==
    CASE param \in {"limit", "offset"} -> AStr(v.s)
      [] param = "metadata" -> AStr(<<"{">> \o v.items \o <<"}">>)
      [] OTHER -> v

\* C16 as stated: for each optional parameter, an explicitly given value,
\* empty or falsy ones included (empty events list, empty string for url or
\* secret, sandbox=False, limit=0, offset=0, empty metadata mapping), is in the
\* request under the parameter's key, so that the request differs from the one
\* made when the parameter is omitted.
C16_ExplicitFalsySent ==
    BuildDone =>
        \A param \in Optionals(buildIn[1].method) :
            BuildArgs[param] # None =>
                <<param, SentForm(param, BuildArgs[param][1])>> \in SentPairs

\* The request the call drawn hands to session.request(...)
BuiltRequest == built[1].value[1]

\* C26 as stated: the URL of every request is the configured base URL with
\* its trailing slashes removed, followed by the endpoint path, for every base
\* URL, one that has a path prefix of its own included.
C26_UrlIsBaseThenEndpoint ==
    BuildDone =>
        BuiltRequest.url =
            RStripSlash(CtorBaseUrl) \o Endpoint(buildIn[1].method, buildIn[1].id)

\* The last n pieces of a URL
UrlTail(url, n) == SubSeq(url, Len(url) - n + 1, Len(url))

\* C29: of the two definitions of update_webhook the later one is in effect:
\* every call of update_webhook issues PUT /api/webhooks/{webhook_id} with
\* only the fields that were provided, and no public method issues PATCH
\* /api/verify/{verification_id}/webhook.
C29_LaterUpdateWebhookInEffect ==
    BuildDone =>
        /\ buildIn[1].method = "update_webhook" =>
              /\ BuiltRequest.method = "PUT"
              /\ UrlTail(BuiltRequest.url, 3) = <<"/", "api/webhooks/", buildIn[1].id>>
              /\ BuiltRequest.data # None
              /\ \A pair \in BuiltRequest.data[1] :
                    /\ pair[1] \in {"url", "events", "secret"}
                    /\ BuildArgs[pair[1]] = Some(pair[2])
              /\ BuiltRequest.params = None
        /\ BuiltRequest.method # "PATCH"
        /\ ~(\E k \in 1..Len(BuiltRequest.url) : BuiltRequest.url[k] = "/webhook")

\* C29 witness: update_webhook was called with a url and an empty events list
\* and issued PUT with those two fields
C29_Witness ==
    /\ BuildDone
    /\ buildIn[1].method = "update_webhook"
    /\ BuildArgs["url"] # None
    /\ BuildArgs["events"] = Some(AList(<<>>))
    /\ BuildArgs["secret"] = None
    /\ BuiltRequest.method = "PUT"
    /\ SentKeys = {"url", "events"}

\* The same client but for the sandbox flag it was constructed with
OtherSandbox == [config[1] EXCEPT !.sandbox = ~config[1].sandbox]

----------------------------------------------------------------------------
(* Claims about verify_webhook_signature, checked under SigSpec *)

SigDone == sigIn # None /\ sigOut # None
SigPayload == sigIn[1].payload
SigSignature == sigIn[1].signature
SigSecret == sigIn[1].secret
SigTextArgs == SigPayload.ty = "str" /\ SigSecret.ty = "str"
SigNonEmptyTextArgs == SigTextArgs /\ SigPayload.s # <<>> /\ SigSecret.s # <<>>
\* HMAC(secret, payload) as a hex digest
SigDigest == HexDigest(Utf8(SigSecret.s), Utf8(SigPayload.s))
\* The call was made with "sha256=" + digest or with the bare digest
SigIsValidForm ==
    SigSignature \in {PyStr(SigPrefix \o SigDigest), PyStr(SigDigest)}

\* C4 as stated: for ANY payload/secret pair (the empty ones included), the
\* call with "sha256=" + HMAC(secret, payload), or with the bare digest,
\* returns True.
C4_AnyPairAccepted ==
    (SigDone /\ SigTextArgs /\ SigIsValidForm) => sigOut = Some(Return(TRUE))

\* C4 amended: for any NON-EMPTY payload and NON-EMPTY secret, the call with
\* "sha256=" + HMAC(secret, payload), or with the bare digest, returns True.
C4_NonEmptyPairAccepted ==
    (SigDone /\ SigNonEmptyTextArgs /\ SigIsValidForm) => sigOut = Some(Return(TRUE))

\* C4 witness: a prefixed valid signature of a non-empty payload was accepted
C4_Witness ==
    /\ SigDone
    /\ SigNonEmptyTextArgs
    /\ SigSignature = PyStr(SigPrefix \o SigDigest)
    /\ sigOut = Some(Return(TRUE))

\* The texts that differ from d in exactly one character
OneCharOff(t, d) ==
    /\ Len(t) = Len(d)
    /\ Cardinality({i \in 1..Len(d) : t[i] # d[i]}) = 1

\* The call was made with "sha256=" + sign', sign' the digest with one
\* character replaced by a different one
SigIsFlipped ==
    /\ SigSignature.ty = "str"
    /\ Len(SigSignature.s) = Len(SigPrefix) + DigestLen
    /\ SubSeq(SigSignature.s, 1, Len(SigPrefix)) = SigPrefix
    /\ OneCharOff(SubSeq(SigSignature.s, Len(SigPrefix) + 1, Len(SigSignature.s)),
                  SigDigest)

\* C5: for a non-empty payload and secret, replacing any single character of
\* the digest by a different character makes the call with "sha256=" + sign'
\* return False.
C5_FlippedRejected ==
    (SigDone /\ SigNonEmptyTextArgs /\ SigIsFlipped) => sigOut = Some(Return(FALSE))

\* C5 witness: a signature whose last character was replaced by another hex
\* character was rejected
C5_Witness ==
    /\ SigDone
    /\ SigNonEmptyTextArgs
    /\ SigIsFlipped
    /\ SigSignature.s[Len(SigSignature.s)] # SigDigest[DigestLen]
    /\ \E i \in 1..Len(HexChars) : SigSignature.s[Len(SigSignature.s)] = HexChars[i]
    /\ sigOut = Some(Return(FALSE))

\* C6 as stated: a signature is accepted only if it is the digest, or
\* "sha256=" followed by the digest; one holding "sha256=" anywhere else, or
\* more than once, is rejected.
C6_OnlyLeadingPrefixStripped ==
    (SigDone /\ sigOut = Some(Return(TRUE))) => (SigTextArgs /\ SigIsValidForm)

\* C7: the call never raises, whatever the arguments (empty, None, bytes, int,
\* non-ASCII text); it returns a bool, and False whenever an argument is empty
\* or None or the body of the try block raised; in particular ("", "", "") gives False.
C7_NeverRaises ==
    SigDone =>
        /\ sigOut[1].kind = "return"
        /\ sigOut[1].value[1] \in BOOLEAN
        /\ (\/ ~AllTruthy(SigPayload, SigSignature, SigSecret)
            \/ TryVerify(SigPayload, SigSignature, SigSecret).kind = "raise")
               => sigOut = Some(Return(FALSE))

\* C7 witness: the comparison raised (a non-ASCII signature) and the call
\* returned False
C7_Witness ==
    /\ SigDone
    /\ SigNonEmptyTextArgs
    /\ SigSignature.ty = "str"
    /\ ~IsAscii(SigSignature.s)
    /\ TryVerify(SigPayload, SigSignature, SigSecret) = Raise("TypeError")
    /\ sigOut = Some(Return(FALSE))

====
